---- MODULE Spec2Model ----
(***************************************************************************)
(* Model of src/main.py: the dose-response probability                     *)
(* (probability_catch_covid), the Monte Carlo driver (run_simulation) and  *)
(* the two aggregation drivers (main_allnumbers, main_runasone).           *)
(*                                                                         *)
(* The program computes in Python floats (IEEE-754 binary64).  The model   *)
(* keeps that arithmetic: a float is a record [k, s, m, e] whose value is  *)
(* (-1)^s * m * 2^e, m a 53-bit natural number held as a sequence of       *)
(* 12-bit limbs (least significant first), and every operation rounds to   *)
(* nearest, ties to even, as the hardware does.                            *)
(***************************************************************************)
EXTENDS Integers, Sequences, FiniteSets, TLC

(***************************************************************************)
(* Natural numbers of any size: sequences of limbs, least significant      *)
(* first, without a leading zero limb; <<>> is 0.                          *)
(***************************************************************************)
LimbBits == 3 * 4
Base == 2 ^ LimbBits

Max(a, b) == IF a >= b THEN a ELSE b
Min(a, b) == IF a <= b THEN a ELSE b

RECURSIVE BNorm(_)
BNorm(a) ==
  IF a = <<>> THEN a
  ELSE IF a[Len(a)] = 0 THEN BNorm(SubSeq(a, 1, Len(a) - 1)) ELSE a

Limb(a, i) == IF i <= Len(a) THEN a[i] ELSE 0

\* Carry propagation over column values (a column may be negative: a borrow).
RECURSIVE Carry(_, _)
Carry(c, k) ==
  IF c = <<>>
  THEN IF k = 0 THEN <<>> ELSE <<k % Base>> \o Carry(<<>>, k \div Base)
  ELSE LET v == Head(c) + k
       IN  <<v % Base>> \o Carry(Tail(c), v \div Base)

BFromNat(n) == BNorm(Carry(<<n>>, 0))

BAdd(a, b) ==
  BNorm(Carry([i \in 1..Max(Len(a), Len(b)) |-> Limb(a, i) + Limb(b, i)], 0))

\* a - b for a >= b.
BSub(a, b) ==
  BNorm(Carry([i \in 1..Max(Len(a), Len(b)) |-> Limb(a, i) - Limb(b, i)], 0))

RECURSIVE ColSum(_, _, _, _, _)
ColSum(a, b, k, i, hi) ==
  IF i > hi THEN 0 ELSE a[i] * b[k - i + 1] + ColSum(a, b, k, i + 1, hi)

BMul(a, b) ==
  IF a = <<>> \/ b = <<>> THEN <<>>
  ELSE BNorm(Carry([k \in 1..(Len(a) + Len(b) - 1) |->
                      ColSum(a, b, k, Max(1, k - Len(b) + 1), Min(k, Len(a)))], 0))

\* a * k for a small k (k < 2^19).
BMulSmall(a, k) == BNorm(Carry([i \in 1..Len(a) |-> a[i] * k], 0))

\* <<quotient, remainder>> of a by a small k (0 < k < 2^19), from the top limb.
RECURSIVE DivSmallRec(_, _, _, _)
DivSmallRec(a, k, i, r) ==
  IF i = 0 THEN <<<<>>, r>>
  ELSE LET v    == r * Base + a[i]
           rest == DivSmallRec(a, k, i - 1, v % k)
       IN  <<Append(rest[1], v \div k), rest[2]>>

BDivSmall(a, k) == BNorm(DivSmallRec(a, k, Len(a), 0)[1])

BShl(a, n) ==
  IF a = <<>> THEN <<>>
  ELSE [i \in 1..(n \div LimbBits) |-> 0] \o BMulSmall(a, 2 ^ (n % LimbBits))

\* floor(a / 2^n)
BShr(a, n) ==
  LET d  == n \div LimbBits
      r  == n % LimbBits
      lo == 2 ^ r
      up == 2 ^ (LimbBits - r)
  IN  IF d >= Len(a) THEN <<>>
      ELSE BNorm([i \in 1..(Len(a) - d) |->
                    (a[i + d] \div lo) + (Limb(a, i + d + 1) % lo) * up])

RECURSIVE SmallBitLen(_)
SmallBitLen(n) == IF n = 0 THEN 0 ELSE 1 + SmallBitLen(n \div 2)

BBitLen(a) ==
  IF a = <<>> THEN 0 ELSE LimbBits * (Len(a) - 1) + SmallBitLen(a[Len(a)])

\* -1, 0, 1 as a < b, a = b, a > b.
RECURSIVE CmpFrom(_, _, _)
CmpFrom(a, b, i) ==
  IF i = 0 THEN 0
  ELSE IF a[i] < b[i] THEN -1
  ELSE IF a[i] > b[i] THEN 1
  ELSE CmpFrom(a, b, i - 1)

BCmp(a, b) ==
  IF Len(a) < Len(b) THEN -1
  ELSE IF Len(a) > Len(b) THEN 1
  ELSE CmpFrom(a, b, Len(a))

BIsOdd(a) == a /= <<>> /\ a[1] % 2 = 1

BPow2(n) == BShl(<<1>>, n)

(***************************************************************************)
(* Python floats (binary64).  A finite float is canonical: m has exactly   *)
(* MantBits bits, or e = MinExp and m has fewer (a subnormal, or zero with *)
(* e = 0).  k = "err" stands for a raised exception (OverflowError,        *)
(* ZeroDivisionError), which ends the computation it occurs in.            *)
(***************************************************************************)
MantBits == 53
MinExp == -1074
MaxExp == 971

Fin(s, m, e) == [k |-> "fin", s |-> s, m |-> m, e |-> e]
Zero(s) == Fin(s, <<>>, 0)
Inf(s) == [k |-> "inf", s |-> s, m |-> <<>>, e |-> 0]
NaN == [k |-> "nan", s |-> 0, m |-> <<>>, e |-> 0]
Raised == [k |-> "err", s |-> 0, m |-> <<>>, e |-> 0]

IsZero(x) == x.k = "fin" /\ x.m = <<>>
Xor(s, t) == (s + t) % 2

Pack(s, m, e) ==
  IF m = <<>> THEN Zero(s) ELSE IF e > MaxExp THEN Inf(s) ELSE Fin(s, m, e)

\* The float nearest to (-1)^s * M * 2^E, ties to even; sticky says the exact
\* value lies strictly between M * 2^E and (M + 1) * 2^E.
Round(s, M, E, sticky) ==
  LET L == BBitLen(M)
      q == Max(E + L - MantBits, MinExp)
  IN  IF M = <<>> THEN Zero(s)
      ELSE IF q <= E THEN Pack(s, BShl(M, E - q), q)
      ELSE LET sh  == q - E
               m0  == BShr(M, sh)
               rem == BSub(M, BShl(m0, sh))
               c   == BCmp(rem, BPow2(sh - 1))
               up  == c > 0 \/ (c = 0 /\ (sticky \/ BIsOdd(m0)))
               m1  == IF up THEN BAdd(m0, <<1>>) ELSE m0
           IN  IF BBitLen(m1) > MantBits
               THEN Pack(s, BShr(m1, 1), q + 1)
               ELSE Pack(s, m1, q)

\* int -> float
FromInt(i) == Round(IF i < 0 THEN 1 ELSE 0, BFromNat(IF i < 0 THEN -i ELSE i), 0, FALSE)

FNeg(x) == IF x.k \in {"nan", "err"} THEN x ELSE [x EXCEPT !.s = 1 - x.s]

\* x + y for finite non-zero x, y with x.e >= y.e.
AddOrdered(x, y) ==
  LET d == x.e - y.e
  IN  IF d > MantBits + 3
      THEN IF x.s = y.s
           THEN Round(x.s, BShl(x.m, 2), x.e - 2, TRUE)
           ELSE Round(x.s, BSub(BShl(x.m, 2), <<1>>), x.e - 2, TRUE)
      ELSE LET mx == BShl(x.m, d)
               c  == BCmp(mx, y.m)
           IN  IF x.s = y.s THEN Round(x.s, BAdd(mx, y.m), y.e, FALSE)
               ELSE IF c = 0 THEN Zero(0)
               ELSE IF c > 0 THEN Round(x.s, BSub(mx, y.m), y.e, FALSE)
               ELSE Round(y.s, BSub(y.m, mx), y.e, FALSE)

FAdd(x, y) ==
  IF x.k = "err" \/ y.k = "err" THEN Raised
  ELSE IF x.k = "nan" \/ y.k = "nan" THEN NaN
  ELSE IF x.k = "inf" THEN (IF y.k = "inf" /\ y.s /= x.s THEN NaN ELSE x)
  ELSE IF y.k = "inf" THEN y
  ELSE IF IsZero(x) /\ IsZero(y) THEN Zero(IF x.s = 1 /\ y.s = 1 THEN 1 ELSE 0)
  ELSE IF IsZero(x) THEN y
  ELSE IF IsZero(y) THEN x
  ELSE IF x.e >= y.e THEN AddOrdered(x, y) ELSE AddOrdered(y, x)

FSub(x, y) == FAdd(x, FNeg(y))

FMul(x, y) ==
  IF x.k = "err" \/ y.k = "err" THEN Raised
  ELSE IF x.k = "nan" \/ y.k = "nan" THEN NaN
  ELSE IF x.k = "inf" \/ y.k = "inf"
       THEN (IF IsZero(x) \/ IsZero(y) THEN NaN ELSE Inf(Xor(x.s, y.s)))
  ELSE Round(Xor(x.s, y.s), BMul(x.m, y.m), x.e + y.e, FALSE)

\* The largest q <= qh with q * d <= r.
RECURSIVE FixQ(_, _, _)
FixQ(r, d, qh) == IF BCmp(BMulSmall(d, qh), r) > 0 THEN FixQ(r, d, qh - 1) ELSE qh

\* Long division of a by d, limb by limb from limb i down, for a divisor whose
\* top limb is at least Base / 2; r is the remainder so far (r < d), q the
\* quotient so far.  <<quotient, remainder>>.
RECURSIVE DivLoop(_, _, _, _, _)
DivLoop(a, d, i, r, q) ==
  IF i = 0 \/ Len(q) < 0 \/ Len(r) < 0 THEN <<BNorm(q), r>>
  ELSE LET r1 == BNorm(<<a[i]>> \o r)
           n  == Len(d)
           qh == Min(Base - 1, (Limb(r1, n + 1) * Base + Limb(r1, n)) \div d[n])
           qd == IF Len(r1) < n THEN 0 ELSE FixQ(r1, d, qh)
       IN  DivLoop(a, d, i - 1, BSub(r1, BMulSmall(d, qd)), <<qd>> \o q)

\* <<floor(a / d), a mod d>> for d /= 0.
BDivMod(a, d) ==
  LET sh == (LimbBits - SmallBitLen(d[Len(d)])) % LimbBits
      an == BShl(a, sh)
      qr == DivLoop(an, BShl(d, sh), Len(an), <<>>, <<>>)
  IN  <<qr[1], BShr(qr[2], sh)>>

\* x / y; Python raises ZeroDivisionError for a zero divisor.
FDiv(x, y) ==
  IF x.k = "err" \/ y.k = "err" THEN Raised
  ELSE IF IsZero(y) THEN Raised
  ELSE IF x.k = "nan" \/ y.k = "nan" THEN NaN
  ELSE IF x.k = "inf" THEN (IF y.k = "inf" THEN NaN ELSE Inf(Xor(x.s, y.s)))
  ELSE IF y.k = "inf" \/ IsZero(x) THEN Zero(Xor(x.s, y.s))
  ELSE LET n  == 2 * MantBits + 4 - BBitLen(x.m)
           qr == BDivMod(BShl(x.m, n), y.m)
       IN  Round(Xor(x.s, y.s), qr[1], x.e - n - y.e, qr[2] /= <<>>)

\* A Python int (exact, of any size) next to the floats: k = "int", the value
\* (-1)^s * m.
PyInt(i) ==
  [k |-> "int", s |-> IF i < 0 THEN 1 ELSE 0,
   m |-> BFromNat(IF i < 0 THEN -i ELSE i), e |-> 0]

\* The float an int converts to in mixed arithmetic (int + float, np.mean).
ToFloat(x) == IF x.k = "int" THEN Round(x.s, x.m, 0, FALSE) ELSE x

\* -1, 0, 1 as |x| < |y|, |x| = |y|, |x| > |y| for finite canonical x, y.
MagCmp(x, y) ==
  IF IsZero(x) THEN (IF IsZero(y) THEN 0 ELSE -1)
  ELSE IF IsZero(y) THEN 1
  ELSE IF x.e < y.e THEN -1
  ELSE IF x.e > y.e THEN 1
  ELSE BCmp(x.m, y.m)

\* Python's x <= y (False when either is a NaN).
FLeq(x, y) ==
  IF x.k \in {"nan", "err"} \/ y.k \in {"nan", "err"} THEN FALSE
  ELSE IF x.k = "inf" THEN x.s = 1 \/ (y.k = "inf" /\ y.s = 0)
  ELSE IF y.k = "inf" THEN y.s = 0
  ELSE IF IsZero(x) /\ IsZero(y) THEN TRUE
  ELSE IF x.s /= y.s THEN x.s = 1
  ELSE IF x.s = 0 THEN MagCmp(x, y) <= 0
  ELSE MagCmp(x, y) >= 0

FLt(x, y) == FLeq(x, y) /\ ~FLeq(y, x)

\* A decimal literal n / 10^k of the source: the float nearest to it.
Dec(n, d) == FDiv(FromInt(n), FromInt(d))

(***************************************************************************)
(* math.exp, ** with an int exponent, and the square root: the exact       *)
(* result rounded once (the C library's exp and pow are accurate to within *)
(* the last bit; the model takes the nearest float).                       *)
(***************************************************************************)
\* exp works in fixed point with ExpBits fractional bits.
ExpBits == 10 * LimbBits
\* floor(ln 2 * 2^ExpBits)
Ln2Fixed == <<758, 63, 920, 3643, 3017, 1946, 463, 3965, 535, 2839>>

\* The value of a bignum below 2^31.
RECURSIVE BToNat(_)
BToNat(a) == IF a = <<>> THEN 0 ELSE Head(a) + Base * BToNat(Tail(a))

\* The k with k * ln2 <= X < (k + 1) * ln2, from an estimate k.
RECURSIVE FixK(_, _)
FixK(X, k) ==
  IF BCmp(BMulSmall(Ln2Fixed, k), X) > 0 THEN FixK(X, k - 1)
  ELSE IF BCmp(BMulSmall(Ln2Fixed, k + 1), X) <= 0 THEN FixK(X, k + 1)
  ELSE k

\* sum + term * (r/j + r^2/(j(j+1)) + ...) in fixed point, for 0 <= r < 1.
RECURSIVE ExpSeries(_, _, _, _)
ExpSeries(r, term, sum, j) ==
  IF term = <<>> \/ Len(sum) < 0 THEN sum
  ELSE LET t2 == BDivSmall(BShr(BMul(term, r), ExpBits), j)
       IN  ExpSeries(r, t2, BAdd(sum, t2), j + 1)

ExpFinite(x) ==
  LET sh == x.e + ExpBits
      X  == IF sh >= 0 THEN BShl(x.m, sh) ELSE BShr(x.m, -sh)
      kk == FixK(X, BToNat(BShr(X, ExpBits - LimbBits)) \div Ln2Fixed[Len(Ln2Fixed)])
      rr == BSub(X, BMulSmall(Ln2Fixed, kk))
      k  == IF x.s = 0 THEN kk ELSE -(kk + 1)
      r  == IF x.s = 0 THEN rr ELSE BSub(Ln2Fixed, rr)
      T  == ExpSeries(r, BPow2(ExpBits), BPow2(ExpBits), 1)
      y  == Round(0, T, k - ExpBits, TRUE)
  IN  IF y.k = "inf" THEN Raised ELSE y

\* math.exp(x); raises OverflowError when the result is too large.
FExp(x) ==
  IF x.k \in {"err", "nan"} THEN x
  ELSE IF x.k = "inf" THEN (IF x.s = 0 THEN x ELSE Zero(0))
  ELSE IF IsZero(x) THEN FromInt(1)
  ELSE IF BBitLen(x.m) + x.e > 10 THEN (IF x.s = 0 THEN Raised ELSE Zero(0))
  ELSE IF BBitLen(x.m) + x.e <= -(MantBits + 1) THEN FromInt(1)
  ELSE ExpFinite(x)

RECURSIVE BPow(_, _)
BPow(a, n) == IF n = 0 THEN <<1>> ELSE BMul(a, BPow(a, n - 1))

\* x ** n for an int n >= 0; raises OverflowError when the result is too large.
FPow(x, n) ==
  IF x.k \in {"err", "nan"} THEN x
  ELSE IF n = 0 THEN FromInt(1)
  ELSE IF x.k = "inf" THEN Inf(IF n % 2 = 1 THEN x.s ELSE 0)
  ELSE LET y == Round(IF n % 2 = 1 THEN x.s ELSE 0, BPow(x.m, n), x.e * n, FALSE)
       IN  IF y.k = "inf" THEN Raised ELSE y

\* floor(sqrt(M)) by Newton's iteration from an r >= sqrt(M).
RECURSIVE SqrtLoop(_, _)
SqrtLoop(M, r) ==
  LET r2 == BShr(BAdd(r, BDivMod(M, r)[1]), 1)
  IN  IF BCmp(r2, r) >= 0 THEN r ELSE SqrtLoop(M, r2)

\* numpy's sqrt: correctly rounded, NaN for a negative argument.
FSqrt(x) ==
  IF x.k \in {"err", "nan"} THEN x
  ELSE IF IsZero(x) THEN x
  ELSE IF x.s = 1 THEN NaN
  ELSE IF x.k = "inf" THEN x
  ELSE LET n0 == 2 * MantBits + 4 - BBitLen(x.m)
           n  == IF (x.e - n0) % 2 = 0 THEN n0 ELSE n0 + 1
           M  == BShl(x.m, n)
           r  == SqrtLoop(M, BPow2((BBitLen(M) + 1) \div 2))
       IN  Round(0, r, (x.e - n) \div 2, BCmp(BMul(r, r), M) /= 0)

(***************************************************************************)
(* probability_catch_covid (src/main.py 15-33)                             *)
(***************************************************************************)
\* The literals of lines 19-32.
b_unvented == Dec(161, 100)
b_vented == Dec(1087, 100)
a_masked_vented == Dec(4936, 1000000)
a_masked == Dec(33230, 1000000)
a_vented == Dec(34039, 1000000)
a_unmitigated == Dec(229814, 1000000)
dose_scale == Dec(49, 100)
One == FromInt(1)

\* The mitigation multiplier applied to a (lines 20-31).
Multiplier(ismasked, isvent) ==
  IF ismasked /\ isvent THEN a_masked_vented
  ELSE IF ismasked THEN a_masked
  ELSE IF isvent THEN a_vented
  ELSE a_unmitigated

\* The decay rate b (lines 19-31).
Decay(ismasked, isvent) ==
  IF ismasked /\ isvent THEN b_vented
  ELSE IF ismasked THEN b_unvented
  ELSE IF isvent THEN b_vented
  ELSE b_unvented

\* Line 32 from a (after the multiplier), a / b, b and t, the operands in
\* Python's order: 0.49 * (a*t - a/b + (a/b)*math.exp(-b*t)).
Dose(a, ab, b, t) ==
  FMul(dose_scale, FAdd(FSub(FMul(a, t), ab), FMul(ab, FExp(FMul(FNeg(b), t)))))

\* Lines 17-32 for num_infected /= 0: a = num_infected / office_volume times
\* the branch's multiplier, b the branch's decay.
DoseOf(a, b, t) == Dose(a, FDiv(a, b), b, t)

d_q(num_infected, office_volume, time_in_office, ismasked, isvent) ==
  DoseOf(FMul(FDiv(FromInt(num_infected), office_volume),
              Multiplier(ismasked, isvent)),
         Decay(ismasked, isvent), time_in_office)

\* probability_catch_covid without the test of line 16.
probability_unguarded(num_infected, office_volume, time_in_office, ismasked, isvent) ==
  FSub(One,
       FExp(FNeg(d_q(num_infected, office_volume, time_in_office,
                     ismasked, isvent))))

probability_catch_covid(num_infected, office_volume, time_in_office, ismasked, isvent) ==
  IF num_infected = 0 THEN PyInt(0)
  ELSE FSub(One,
            FExp(FNeg(d_q(num_infected, office_volume, time_in_office,
                          ismasked, isvent))))

(***************************************************************************)
(* The inputs the model explores.                                          *)
(***************************************************************************)
\* Bounds.
MaxInfected == 2
MaxInOffice == 3
MaxRuns == 2

BOOL == {TRUE, FALSE}

\* Values np.random.normal can return: a usual shift length, and negative
\* ones (the normal distribution has unbounded support).
Minutes480 == FromInt(480)
MinusOneMinute == FromInt(-1)
Minus450Minutes == FromInt(-450)
Durations == {Minutes480, MinusOneMinute, Minus450Minutes}

\* Values random.random() can return (floats in [0, 1)).
Uniforms == {Zero(0), Dec(3, 100)}

\* The two draws of a trial, a duration and a uniform value: a usual shift
\* and the short negative one with either uniform value, and the long
\* negative one (on which line 64 / 77 raises before comparing) with 0.
Draws ==
  {<<Minutes480, Zero(0)>>, <<Minutes480, Dec(3, 100)>>,
   <<MinusOneMinute, Zero(0)>>, <<MinusOneMinute, Dec(3, 100)>>,
   <<Minus450Minutes, Zero(0)>>}

\* main's office_volume (line 212) and outside_infection_rate (line 213).
Volume360 == FromInt(360)
Rate15 == Dec(15, 10000)
SimVolumes == {Volume360}

\* A function over a finite domain as an explicit table: the same function,
\* its values computed once.
Tabulated(f) == f @@ <<>>

\* probability_catch_covid over the arguments run_simulation calls it with.
ProbTable ==
  Tabulated([x \in (1..MaxInOffice) \X SimVolumes \X Durations \X BOOL \X BOOL |->
               probability_catch_covid(x[1], x[2], x[3], x[4], x[5])])

SimProbability(num_infected, office_volume, time_in_office, ismasked, isvent) ==
  ProbTable[<<num_infected, office_volume, time_in_office, ismasked, isvent>>]

(***************************************************************************)
(* run_simulation (src/main.py 59-80), one step at a time.  A frame holds  *)
(* the call's arguments and locals; the fields from draws_t on record what *)
(* the call has done so far and are read only by the properties: the       *)
(* number of draws, the trials of the loop in progress (log), and for each *)
(* finished k its trials and the counter line 79 used (terms).             *)
(***************************************************************************)
RECURSIVE Factorial(_)
Factorial(n) == IF n = 0 THEN 1 ELSE n * Factorial(n - 1)

\* math.comb(n, k)
Comb(n, k) == IF k > n THEN 0 ELSE Factorial(n) \div (Factorial(k) * Factorial(n - k))

\* Line 73: math.comb(n,k)*(p**k)*((1-p)**k), evaluated left to right.
Weight(n, k, p) ==
  FMul(FMul(FromInt(Comb(n, k)), FPow(p, k)), FPow(FSub(One, p), k))

NewFrame(args) ==
  [args |-> args, pc |-> "call", i |-> 0, k |-> 0, j |-> 0,
   probability |-> Zero(0),
   number_infected_in_office |-> 0,
   expected_number_infected |-> PyInt(0),
   ret |-> PyInt(0),
   draws_t |-> 0, draws_u |-> 0, log |-> <<>>, terms |-> <<>>]

\* Lines 60-61 and 67-68: the branch on run_as_one and its accumulator.
Enter(f) ==
  IF f.args.run_as_one
  THEN [f EXCEPT !.pc = "loop", !.number_infected_in_office = 0]
  ELSE [f EXCEPT !.pc = "outer", !.expected_number_infected = PyInt(0)]

\* The number of infectors a trial is evaluated with: 1 (line 64) or k (line 77).
Infectors(f) == IF f.args.run_as_one THEN 1 ELSE f.k

\* MoreTrials with each loop running once more than its range.
MoreTrialsInclusive(f) ==
  \/ f.pc = "loop" /\ f.i <= f.args.num_in_office
  \/ f.pc = "inner" /\ f.j <= f.args.num_in_office - f.k

\* Whether the loop the frame is in has an iteration left (lines 62, 69, 75).
MoreTrials(f) ==
  \/ f.pc = "loop" /\ f.i < f.args.num_in_office
  \/ f.pc = "inner" /\ f.j < f.args.num_in_office - f.k
MoreCarriers(f) == f.pc = "outer" /\ f.i < f.args.num_in_office

\* Counted without the comparison: every trial counts.
CountedAlways(f, g, hit) ==
  [g EXCEPT !.number_infected_in_office = @ + 1,
            !.i = IF f.pc = "loop" THEN @ + 1 ELSE @,
            !.j = IF f.pc = "inner" THEN @ + 1 ELSE @]

\* Lines 65 and 78: the comparison and the counter, p the probability that
\* lines 64 and 77 computed; an exception raised there ends the call.
Counted(f, g, hit) ==
  [g EXCEPT !.number_infected_in_office = IF hit THEN @ + 1 ELSE @,
            !.i = IF f.pc = "loop" THEN @ + 1 ELSE @,
            !.j = IF f.pc = "inner" THEN @ + 1 ELSE @]

\* The frame after the two draws of a trial (the operands of line 63 / 76,
\* evaluated before the comparison).
Drawn(f, t, u, p) ==
  [f EXCEPT !.draws_t = @ + 1, !.draws_u = @ + 1,
            !.log = Append(@, [time_in_office |-> t, u |-> u,
                               num_infected |-> Infectors(f), p |-> p])]

TrialWith(f, t, u, p) ==
  IF p.k = "err" THEN [Drawn(f, t, u, p) EXCEPT !.pc = "raised"]
  ELSE Counted(f, Drawn(f, t, u, p), FLeq(u, ToFloat(p)))

\* Trial with the probability weighted by the outside infection rate.
TrialScaled(f, t, u) ==
  TrialWith(f, t, u,
            FMul(f.args.outside_infection_rate,
                 ToFloat(SimProbability(Infectors(f), f.args.office_volume, t,
                                        f.args.ismasked, f.args.isvent))))

\* Lines 63-65 and 76-78: one trial, with the duration t that
\* rv_time_in_office returned and the u that random.random() returned.
Trial(f, t, u) ==
  TrialWith(f, t, u,
            SimProbability(Infectors(f), f.args.office_volume, t,
                           f.args.ismasked, f.args.isvent))

\* BeginK without the reset of line 74.
BeginKNoReset(f) ==
  [f EXCEPT !.k = f.i + 1, !.j = 0, !.pc = "inner",
            !.probability = Weight(f.args.num_in_office, f.i + 1,
                                   f.args.outside_infection_rate),
            !.log = <<>>]

\* Lines 70-74: the next carrier count, its weight, the counter reset.
BeginK(f) ==
  LET k == f.i + 1
  IN  [f EXCEPT !.k = k, !.j = 0, !.pc = "inner",
                !.probability = Weight(f.args.num_in_office, k,
                                       f.args.outside_infection_rate),
                !.number_infected_in_office = 0,
                !.log = <<>>]

\* Line 79, and the outer loop's increment.
EndK(f) ==
  [f EXCEPT !.expected_number_infected =
               FAdd(ToFloat(@),
                    FMul(f.probability, FromInt(f.number_infected_in_office))),
            !.i = @ + 1, !.pc = "outer",
            !.terms = Append(@, [k |-> f.k, log |-> f.log,
                                 count |-> f.number_infected_in_office])]

\* Lines 66 and 80.
Return(f) ==
  [f EXCEPT !.pc = "done",
            !.ret = IF f.args.run_as_one THEN PyInt(f.number_infected_in_office)
                    ELSE f.expected_number_infected]

\* The step a frame takes without drawing.
Advance(f) ==
  IF f.pc = "call" THEN Enter(f)
  ELSE IF MoreCarriers(f) THEN BeginK(f)
  ELSE IF f.pc = "inner" THEN EndK(f)
  ELSE Return(f)

Finished(f) == f.pc \in {"done", "raised"}

\* The whole call, given the draws its trials consume in order.
RECURSIVE RunFrame(_, _)
RunFrame(f, draws) ==
  IF Finished(f) THEN f
  ELSE IF MoreTrials(f)
       THEN RunFrame(Trial(f, Head(draws)[1], Head(draws)[2]), Tail(draws))
       ELSE RunFrame(Advance(f), draws)

\* The number of trials a call makes: n, or the sum of n - k for k = 1..n.
TrialsOf(args) ==
  IF args.run_as_one THEN args.num_in_office
  ELSE (args.num_in_office * (args.num_in_office - 1)) \div 2

(***************************************************************************)
(* State.  prob: a caller of probability_catch_covid (as test(), lines     *)
(* 221-225: the four flag combinations in turn).  sim: one call of         *)
(* run_simulation; twin: the same call with the outside infection rate     *)
(* multiplied by chance (line 117), fed the same draws.  drv: one run of   *)
(* main_allnumbers or main_runasone.                                       *)
(***************************************************************************)
VARIABLES prob, sim, twin, drv

vars == <<prob, sim, twin, drv>>

\* Line 117 / 179: chance = 0.4
chance == Dec(4, 10)

NoProb == [num_infected |-> 0, office_volume |-> One, time_in_office |-> Zero(0),
           ret |-> <<>>]
NoArgs == [num_in_office |-> 0, office_volume |-> One,
           outside_infection_rate |-> Zero(0), ismasked |-> FALSE,
           isvent |-> FALSE, run_as_one |-> FALSE]
NoSim == [NewFrame(NoArgs) EXCEPT !.pc = "idle"]
NoDrv == [fn |-> "none", pc |-> "idle"]

(***************************************************************************)
(* SpecProb: probability_catch_covid on bounded inputs.                    *)
(***************************************************************************)
\* The flag combinations in the order test() calls them (lines 222-225).
FlagOrder == <<<<FALSE, FALSE>>, <<TRUE, FALSE>>, <<FALSE, TRUE>>, <<TRUE, TRUE>>>>

\* main's num_in_office (line 211), the largest carrier count it can pass.
InOffice20 == 20
NumInfectedValues == (0..MaxInfected) \cup {InOffice20}
ProbVolumes == {One, Volume360}
ProbDurations ==
  {Minus450Minutes, MinusOneMinute, Zero(0), Dec(1, 1000000000), Dec(5, 10000),
   Minutes480}

InitProb ==
  /\ prob \in [num_infected : NumInfectedValues, office_volume : ProbVolumes,
               time_in_office : ProbDurations, ret : {<<>>}]
  /\ sim = NoSim /\ twin = NoSim /\ drv = NoDrv

ProbCall ==
  /\ Len(prob.ret) < Len(FlagOrder)
  /\ LET fl == FlagOrder[Len(prob.ret) + 1]
     IN  prob' = [prob EXCEPT !.ret =
                    Append(@, probability_catch_covid(prob.num_infected,
                                prob.office_volume, prob.time_in_office,
                                fl[1], fl[2]))]
  /\ UNCHANGED <<sim, twin, drv>>

NextProb == ProbCall

SpecProb == InitProb /\ [][NextProb]_vars

\* A returned value that is 0 (the int 0 or a float zero).
IsZeroValue(r) == r.k \in {"int", "fin"} /\ r.m = <<>>

\* A returned value in [0, 1].
InUnitInterval(r) ==
  r.k \in {"int", "fin"} /\ FLeq(Zero(0), ToFloat(r)) /\ FLeq(ToFloat(r), One)

\* The inputs claims C5 and C6 call valid: a positive volume (every volume of
\* ProbVolumes is) and a duration that is not negative.
ValidDuration(t) == t.k = "fin" /\ (t.s = 0 \/ t.m = <<>>)

\* C1: with num_infected = 0 every call returns 0, whatever the volume, the
\* duration (negative ones included) and the flags.
C1_ZeroCarriersZeroProbability ==
  prob.num_infected = 0 =>
    \A i \in 1..Len(prob.ret) : IsZeroValue(prob.ret[i])

\* C1 witness: all four flag combinations have returned for num_infected = 0
\* and a duration of -450 minutes, the input on which the formula alone
\* would raise OverflowError.
C1_Witness ==
  /\ prob.num_infected = 0 /\ prob.time_in_office = Minus450Minutes
  /\ Len(prob.ret) = Len(FlagOrder)

\* C5: for num_infected >= 1 and a duration >= 0, the probability with both
\* flags is <= the one with either flag alone, and each of those is <= the
\* one with no flag.  (ret holds the results for no flag, masked,
\* ventilated, both, in that order.)
C5_MitigationOrder ==
  (/\ prob.num_infected >= 1 /\ ValidDuration(prob.time_in_office)
   /\ Len(prob.ret) = Len(FlagOrder))
  => /\ FLeq(ToFloat(prob.ret[4]), ToFloat(prob.ret[2]))
     /\ FLeq(ToFloat(prob.ret[4]), ToFloat(prob.ret[3]))
     /\ FLeq(ToFloat(prob.ret[2]), ToFloat(prob.ret[1]))
     /\ FLeq(ToFloat(prob.ret[3]), ToFloat(prob.ret[1]))

\* C6: for num_infected >= 0 and a duration >= 0, every returned value lies
\* in [0, 1].
C6_ProbabilityInUnitInterval ==
  ValidDuration(prob.time_in_office) =>
    \A i \in 1..Len(prob.ret) : InUnitInterval(prob.ret[i])

(***************************************************************************)
(* SpecSim: run_simulation on bounded arguments, step by step.             *)
(***************************************************************************)
SimRates == {Rate15, Dec(3, 10)}

SimArgs ==
  [num_in_office : 0..MaxInOffice, office_volume : SimVolumes,
   outside_infection_rate : SimRates, ismasked : BOOL, isvent : BOOL,
   run_as_one : BOOL]

Quarantined(args) ==
  [args EXCEPT !.outside_infection_rate = FMul(@, chance)]

InitSim ==
  /\ \E args \in SimArgs :
       /\ sim = NewFrame(args)
       /\ twin = NewFrame(Quarantined(args))
  /\ prob = NoProb /\ drv = NoDrv

SimEnter ==
  /\ sim.pc = "call"
  /\ sim' = Enter(sim) /\ twin' = Enter(twin)
  /\ UNCHANGED <<prob, drv>>

\* rv_time_in_office (line 44) and random.random() return any of the values.
SimTrial ==
  /\ MoreTrials(sim)
  /\ \E d \in Draws :
       sim' = Trial(sim, d[1], d[2]) /\ twin' = Trial(twin, d[1], d[2])
  /\ UNCHANGED <<prob, drv>>

SimBeginK ==
  /\ MoreCarriers(sim)
  /\ sim' = BeginK(sim) /\ twin' = BeginK(twin)
  /\ UNCHANGED <<prob, drv>>

SimEndK ==
  /\ sim.pc = "inner" /\ ~MoreTrials(sim)
  /\ sim' = EndK(sim) /\ twin' = EndK(twin)
  /\ UNCHANGED <<prob, drv>>

SimReturn ==
  /\ sim.pc \in {"loop", "outer"} /\ ~MoreTrials(sim) /\ ~MoreCarriers(sim)
  /\ sim' = Return(sim) /\ twin' = Return(twin)
  /\ UNCHANGED <<prob, drv>>

NextSim == SimEnter \/ SimTrial \/ SimBeginK \/ SimEndK \/ SimReturn

SpecSim == InitSim /\ [][NextSim]_vars

\* The successes among recorded trials: those whose uniform draw is <= the
\* probability.
Hits(log) ==
  Cardinality({i \in 1..Len(log) :
                 log[i].p.k /= "err" /\ FLeq(log[i].u, ToFloat(log[i].p))})

\* Every recorded trial was evaluated with num infectors and the frame's
\* volume and flags, on its own duration draw.
TrialsUse(f, log, num) ==
  \A i \in 1..Len(log) :
    /\ log[i].num_infected = num
    /\ log[i].p = SimProbability(num, f.args.office_volume, log[i].time_in_office,
                                 f.args.ismasked, f.args.isvent)

Negative(t) == t.k = "fin" /\ t.s = 1 /\ t.m /= <<>>

\* C2: with num_in_office = 0 no duration and no uniform is ever drawn, no
\* exception ends the call, and the call returns 0, in both modes.
C2_EmptyOfficeReturnsZero ==
  sim.args.num_in_office = 0 =>
    /\ sim.draws_t = 0 /\ sim.draws_u = 0
    /\ sim.pc /= "raised"
    /\ sim.pc = "done" => sim.ret = PyInt(0)

\* C2 witness: a call in expected mode with an empty office has returned.
C2_Witness ==
  sim.args.num_in_office = 0 /\ ~sim.args.run_as_one /\ sim.pc = "done"

\* C3: in run_as_one mode every trial takes one duration draw and one uniform
\* draw and is evaluated with num_infected = 1; the counter is the number of
\* successes so far; the call returns after exactly num_in_office trials, and
\* returns that number, an int in 0..num_in_office.
C3_RunAsOneCountsTrials ==
  sim.args.run_as_one =>
    /\ sim.draws_t = Len(sim.log) /\ sim.draws_u = Len(sim.log)
    /\ Len(sim.log) <= sim.args.num_in_office
    /\ TrialsUse(sim, sim.log, 1)
    /\ sim.pc \in {"loop", "done"} => sim.number_infected_in_office = Hits(sim.log)
    /\ sim.pc = "done" =>
         /\ Len(sim.log) = sim.args.num_in_office
         /\ sim.ret = PyInt(Hits(sim.log))
         /\ Hits(sim.log) \in 0..sim.args.num_in_office

\* C3 witness: a run_as_one call over three people has returned 1: some
\* trials succeeded and some failed.
C3_Witness ==
  /\ sim.args.run_as_one /\ sim.args.num_in_office = MaxInOffice
  /\ sim.pc = "done" /\ sim.ret = PyInt(1)

\* The weight claim C4 names: C(n,k) * p^k * (1-p)^k.
C4_w(n, k, p) ==
  FMul(FMul(FromInt(Comb(n, k)), FPow(p, k)), FPow(FSub(One, p), k))

\* The sum of w_k * c_k over the first k terms, accumulated from the int 0 in
\* the order of k; c_k the successes among the trials recorded for k.
RECURSIVE C4_Sum(_, _, _, _)
C4_Sum(terms, n, p, k) ==
  IF k = 0 THEN PyInt(0)
  ELSE FAdd(ToFloat(C4_Sum(terms, n, p, k - 1)),
            FMul(C4_w(n, k, p), FromInt(Hits(terms[k].log))))

C7_NegativeDurationHarmless ==
  \A i \in 1..Len(sim.log) :
    Negative(sim.log[i].time_in_office) =>
      IsZeroValue(sim.log[i].p) \/ sim.log[i].p.k = "err"

\* C10: twin is the same call as sim with the outside infection rate
\* multiplied by chance, fed the same draws.  In run_as_one mode the two
\* agree at every step: same position, same trials with the same
\* probabilities, same counter, same returned count.
C10_RateIndependent ==
  sim.args.run_as_one =>
    /\ twin.args = Quarantined(sim.args)
    /\ twin.args.outside_infection_rate /= sim.args.outside_infection_rate
    /\ twin.pc = sim.pc /\ twin.log = sim.log
    /\ twin.number_infected_in_office = sim.number_infected_in_office
    /\ twin.ret = sim.ret

\* C10 witness: a run_as_one call has returned a count that is not 0, and so
\* has its twin at the reduced rate.
C10_Witness ==
  /\ sim.args.run_as_one /\ sim.pc = "done" /\ twin.pc = "done"
  /\ sim.ret /= PyInt(0)

(***************************************************************************)
(* Spec: main_allnumbers (lines 86-141) and main_runasone (lines 143-205). *)
(* A run of either driver: the header, then for each of the five scenarios *)
(* number_of_runs calls of run_simulation, the mean and the standard       *)
(* deviation of their results and a sentence, then the table.  The text of *)
(* a printed line is not modelled, only which line it is.                  *)
(***************************************************************************)
\* The scenarios in the order of the source (lines 96, 103, 110, 118, 125).
ScenarioNames == <<"none", "masking", "ventilation", "quarantine", "all">>

\* ScenarioArgs with the all-measures scenario at the full rate.
ScenarioArgsFullRate(fn, s, base) ==
  [num_in_office |-> base.num_in_office,
   office_volume |-> base.office_volume,
   outside_infection_rate |->
     IF s = 4 THEN FMul(base.outside_infection_rate, chance)
     ELSE base.outside_infection_rate,
   ismasked |-> s \in {2, 5},
   isvent |-> s \in {3, 5},
   run_as_one |-> fn = "main_runasone"]

\* The arguments of the call in scenario s (lines 98, 105, 112, 120, 127 and
\* 157, 165, 173, 182, 190); base holds the driver's own arguments.
ScenarioArgs(fn, s, base) ==
  [num_in_office |-> base.num_in_office,
   office_volume |-> base.office_volume,
   outside_infection_rate |->
     IF s \in {4, 5} THEN FMul(base.outside_infection_rate, chance)
     ELSE base.outside_infection_rate,
   ismasked |-> s \in {2, 5},
   isvent |-> s \in {3, 5},
   run_as_one |-> fn = "main_runasone"]

\* The sum numpy accumulates for fewer than eight float64 values: left to
\* right from the first; ints are converted first.
RECURSIVE SumTo(_, _)
SumTo(xs, n) ==
  IF n = 1 THEN ToFloat(xs[1]) ELSE FAdd(SumTo(xs, n - 1), ToFloat(xs[n]))

\* The squares of the deviations from m.
SquaredDeviations(xs, m) ==
  [i \in 1..Len(xs) |-> FMul(FSub(ToFloat(xs[i]), m), FSub(ToFloat(xs[i]), m))]

\* np.std of a non-empty list: sqrt(mean(abs(x - mean(x)) ** 2)).
StdAround(xs, m) ==
  FSqrt(FDiv(SumTo(SquaredDeviations(xs, m), Len(xs)), FromInt(Len(xs))))

Std(xs) == StdAround(xs, FDiv(SumTo(xs, Len(xs)), FromInt(Len(xs))))

\* The mean column computed as the standard deviation.
MeanAsSpread(xs) == Std(xs)

\* np.mean of a non-empty list.
Mean(xs) == FDiv(SumTo(xs, Len(xs)), FromInt(Len(xs)))

\* The sequences of draws a call can consume: n pairs of a duration and a
\* uniform value.
DrawSeqs(n) == [1..n -> Draws]

\* The driver and the size of office it is run with: for each driver the
\* smallest office in which the result of a call depends on the draws (one
\* trial per call: main_runasone with one person, main_allnumbers with two).
DrvConfigs == {<<"main_allnumbers", 2>>, <<"main_runasone", 1>>}

\* The outside infection rates the driver is run with: main's (line 213).
DrvRates == {Rate15}

\* The numbers of runs per scenario (the source fixes number_of_runs =
\* 1000000, lines 94 and 151).
DrvRuns == 1..MaxRuns

\* The calls of run_simulation the driver can make, the values they can
\* return, and the lists of up to MaxRuns of them.
DrvCalls ==
  {ScenarioArgs(cf[1], s, [num_in_office |-> cf[2], office_volume |-> Volume360,
                           outside_infection_rate |-> r]) :
     cf \in DrvConfigs, r \in DrvRates, s \in 1..Len(ScenarioNames)}

\* run_simulation over those calls and the draws they can consume: the frame
\* each call ends in.
RunTable ==
  Tabulated([x \in UNION {{<<a, d>> : d \in DrawSeqs(TrialsOf(a))} : a \in DrvCalls} |->
               RunFrame(NewFrame(x[1]), x[2])])

DrvResults == {RunTable[x].ret : x \in DOMAIN RunTable}
DrvLists == UNION {[1..n -> DrvResults] : n \in DrvRuns}

\* np.mean and np.std over those lists.
MeanTable == Tabulated([xs \in DrvLists |-> Mean(xs)])
StdTable == Tabulated([xs \in DrvLists |-> Std(xs)])

Init ==
  /\ \E cf \in DrvConfigs, rate \in DrvRates, runs \in DrvRuns :
       drv = [fn |-> cf[1], num_in_office |-> cf[2], office_volume |-> Volume360,
              outside_infection_rate |-> rate, number_of_runs |-> runs,
              pc |-> "start", scenario |-> 1,
              lists |-> [s \in 1..Len(ScenarioNames) |-> <<>>],
              means |-> <<>>, stds |-> <<>>, out |-> <<>>, calls |-> <<>>]
  /\ prob = NoProb /\ sim = NoSim /\ twin = NoSim

\* Lines 87-92 (and 153): the header.
DrvHeader ==
  /\ drv.pc = "start"
  /\ drv' = [drv EXCEPT !.pc = "loop",
                        !.out = IF drv.fn = "main_runasone"
                                THEN <<"Given that", "Here are the numbers">>
                                ELSE <<"Given that">>]
  /\ UNCHANGED <<prob, sim, twin>>

\* The driver after a call with arguments args ended in frame f: the result
\* joins the scenario's list, or the exception ends the driver.
AfterCall(d, args, f) ==
  IF f.pc = "raised"
  THEN [d EXCEPT !.pc = "raised", !.calls = Append(@, args)]
  ELSE [d EXCEPT !.lists[d.scenario] = Append(@, f.ret),
                 !.calls = Append(@, args)]

CallWith(d, args, draws) == AfterCall(d, args, RunTable[<<args, draws>>])

\* One iteration of a scenario's loop (lines 97-98, ...): a whole call of
\* run_simulation, on any draws.
DrvRun ==
  /\ drv.pc = "loop"
  /\ Len(drv.lists[drv.scenario]) < drv.number_of_runs
  /\ \E draws \in DrawSeqs(TrialsOf(ScenarioArgs(drv.fn, drv.scenario, drv))) :
       drv' = CallWith(drv, ScenarioArgs(drv.fn, drv.scenario, drv), draws)
  /\ UNCHANGED <<prob, sim, twin>>

\* Lines 99-101 (...): the scenario's mean, standard deviation and sentence.
DrvSummarise ==
  /\ drv.pc = "loop"
  /\ Len(drv.lists[drv.scenario]) = drv.number_of_runs
  /\ drv' = [drv EXCEPT !.means = Append(@, Mean(drv.lists[drv.scenario])),
                        !.stds = Append(@, Std(drv.lists[drv.scenario])),
                        !.out = Append(@, ScenarioNames[drv.scenario]),
                        !.scenario = IF @ = Len(ScenarioNames) THEN @ ELSE @ + 1,
                        !.pc = IF drv.scenario = Len(ScenarioNames)
                               THEN "table" ELSE "loop"]
  /\ UNCHANGED <<prob, sim, twin>>

\* Lines 133-141 / 196-205: the table.
DrvTable ==
  /\ drv.pc = "table"
  /\ drv' = [drv EXCEPT !.pc = "done", !.out = Append(@, "LaTeX Table Form")]
  /\ UNCHANGED <<prob, sim, twin>>

Next == DrvHeader \/ DrvRun \/ DrvSummarise \/ DrvTable

Spec == Init /\ [][Next]_vars

\* Run by run, no result of xs exceeds the result of ys.
PointwiseLeq(xs, ys) ==
  \A i \in 1..Len(xs) : FLeq(ToFloat(xs[i]), ToFloat(ys[i]))

C9_Reduced == Tabulated([r \in DrvRates |-> FMul(r, Dec(4, 10))])
C9_Rate(s, r) ==
  IF ScenarioNames[s] \in {"quarantine", "all"} THEN C9_Reduced[r] ELSE r
C9_Masked(s) == ScenarioNames[s] \in {"masking", "all"}
C9_Vent(s) == ScenarioNames[s] \in {"ventilation", "all"}

\* Everything a finished driver prints, in order.
C9_Output(fn) ==
  (IF fn = "main_runasone" THEN <<"Given that", "Here are the numbers">>
   ELSE <<"Given that">>)
  \o <<"none", "masking", "ventilation", "quarantine", "all">>
  \o <<"LaTeX Table Form">>

\* C9: the i-th call of run_simulation belongs to scenario ceil(i / N), in
\* the order none, masking, ventilation, quarantine, all, and has that
\* scenario's settings; a scenario's mean and standard deviation are those
\* of its N results, computed once its N calls are made; the lines printed
\* are always a prefix of: header, the five sentences in order, the table.
C9_ScenarioOrder ==
  /\ Len(drv.calls) <= 5 * drv.number_of_runs
  /\ \A i \in 1..Len(drv.calls) :
       /\ drv.calls[i].num_in_office = drv.num_in_office
       /\ drv.calls[i].office_volume = drv.office_volume
       /\ drv.calls[i].run_as_one = (drv.fn = "main_runasone")
       /\ drv.calls[i].outside_infection_rate =
            C9_Rate(((i - 1) \div drv.number_of_runs) + 1, drv.outside_infection_rate)
       /\ drv.calls[i].ismasked = C9_Masked(((i - 1) \div drv.number_of_runs) + 1)
       /\ drv.calls[i].isvent = C9_Vent(((i - 1) \div drv.number_of_runs) + 1)
  /\ Len(drv.stds) = Len(drv.means)
  /\ Len(drv.calls) >= drv.number_of_runs * Len(drv.means)
  /\ \A s \in 1..Len(drv.means) :
       /\ Len(drv.lists[s]) = drv.number_of_runs
       /\ drv.means[s] = MeanTable[drv.lists[s]]
       /\ drv.stds[s] = StdTable[drv.lists[s]]
  /\ drv.out = SubSeq(C9_Output(drv.fn), 1, Len(drv.out))
  /\ drv.pc \in {"loop", "table", "raised"} =>
       Len(drv.out) = Len(C9_Output(drv.fn)) - 6 + Len(drv.means)
  /\ drv.pc = "done" =>
       /\ drv.out = C9_Output(drv.fn)
       /\ Len(drv.means) = 5
       /\ Len(drv.calls) = 5 * drv.number_of_runs

\* C9 witness: main_runasone has finished with MaxRuns runs per scenario.
C9_Witness ==
  /\ drv.fn = "main_runasone" /\ drv.pc = "done"
  /\ drv.number_of_runs = MaxRuns
  /\ drv.out[Len(drv.out)] = "LaTeX Table Form"

====
